---- MODULE Spec2Model ----
(***************************************************************************)
(* Model of the two scripts of DDR_Song_Similarity:                        *)
(*   retag_sm.py    - walks a StepMania song tree and rewrites the tags of *)
(*                    every .ogg/.mp3 from the .ssc/.sm file beside it;    *)
(*   similar_csv.py - queries a similarity API per manifest row and        *)
(*                    streams the answers to one CSV file.                 *)
(*                                                                         *)
(* Text is modelled as a sequence of tokens (a key such as "#TITLE:", the  *)
(* terminator ";", a blank " ", or a word); the empty string is << >>.     *)
(* A file name is a pair <<stem, suffix>> whose concatenation is the name. *)
(* A path is the sequence of the names below the filesystem root.          *)
(***************************************************************************)
EXTENDS Integers, Sequences, FiniteSets, TLC

VARIABLES
    \* ---- retag_sm.py: the filesystem and the platform
    caseFold,      \* TRUE on a platform whose os.path.normcase folds case (Windows)
    rootIsDir,     \* os.path.isdir(target_dir)
    rootDir,       \* os.path.abspath(args.directory), a path
    files,         \* files[d]: the file names of the d-th directory, in listing order
    desc,          \* desc[d]: what open()/read() of the descriptor selected in d gives
    tags,          \* tags[path]: the tag block of each audio file, on disk
    \* ---- retag_sm.py: main()'s locals and its output
    pc,            \* "start" | "walk" | "files" | "done"
    queue,         \* the directories os.walk has still to yield
    cur,           \* the directory being visited (0: none)
    idx,           \* position of the file loop in files[cur]
    found_ogg,
    found_mp3,
    source_meta_list,
    log,           \* the lines printed, in order
    run,           \* 1 during the first run of the script, 2 during the second
    before,        \* the tags as they were when the current run started
    faults,        \* tag-library errors raised so far
    \* ---- the descriptor resolver run on one directory listing
    rEntries,      \* the directory's entries, in listing order
    rFold,         \* the platform, as caseFold
    rSelected,     \* source_meta_list
    rPc,           \* "ready" | "done"
    \* ---- descriptor parser run on one text (parse_metadata_file + title join)
    pContent,      \* the descriptor text handed to the parser
    pFields,       \* the dict parse_metadata_file returned
    pTitle,        \* final_title computed by apply_tags from pFields
    pPc,           \* "ready" | "done"
    \* ---- similar_csv.py
    manifest,      \* the rows of the master CSV
    ePc,           \* "next" | "similar" | "maxdist" | "track" | "write" | "far" | "done"
    eRow,          \* index of the manifest row being processed
    api_results,   \* answer of /similar_tracks for the current row
    max_data,      \* answer of /max_distance for the current row
    farthest_meta, \* answer of /track for the current row
    rank_value,
    out,           \* the rows written to the output CSV
    answers        \* per processed row: the answers the API gave, or "failed"

wvars == <<caseFold, rootIsDir, rootDir, files, desc, tags, pc, queue, cur, idx,
           found_ogg, found_mp3, source_meta_list, log, run, before, faults>>

rvars == <<rEntries, rFold, rSelected, rPc>>

pvars == <<pContent, pFields, pTitle, pPc>>

evars == <<manifest, ePc, eRow, api_results, max_data, farthest_meta, rank_value,
           out, answers>>

vars == <<wvars, rvars, pvars, evars>>

(***************************************************************************)
(* Bounds                                                                  *)
(***************************************************************************)
MaxContentLen == 6

MaxFiles == 3

MaxFaults == 1

MaxEntries == 3

MaxRows == 2

MaxSimilar == 2

(***************************************************************************)
(* Text helpers                                                            *)
(***************************************************************************)
Blank == " "

\* str.strip(): drop leading and trailing whitespace
RECURSIVE LStrip(_)
LStrip(s) == IF s # << >> /\ Head(s) = Blank THEN LStrip(Tail(s)) ELSE s

RECURSIVE RStrip(_)
RStrip(s) ==
    IF s # << >> /\ s[Len(s)] = Blank THEN RStrip(SubSeq(s, 1, Len(s) - 1)) ELSE s

Strip(s) == RStrip(LStrip(s))

(***************************************************************************)
(* parse_metadata_file                                                     *)
(***************************************************************************)
PatternKeys == {"title", "subtitle", "artist"}

\* the three compiled patterns; re.IGNORECASE makes the key match in any case
KeyTokens(key) ==
    CASE key = "title"    -> {"#TITLE:", "#title:"}
      [] key = "subtitle" -> {"#SUBTITLE:", "#subtitle:"}
      [] key = "artist"   -> {"#ARTIST:", "#artist:"}

\* positions where '#KEY:([^;]*);' can match: the key, then a later ';'
MatchStarts(content, key) ==
    { i \in 1..Len(content) :
        /\ content[i] \in KeyTokens(key)
        /\ \E j \in (i + 1)..Len(content) : content[j] = ";" }

Min(S) == CHOOSE x \in S : \A y \in S : x <= y

\* pattern.search(content): the leftmost match; group(1) runs to the first ';'
SearchGroup(content, key) ==
    LET i == Min(MatchStarts(content, key))
        j == Min({ k \in (i + 1)..Len(content) : content[k] = ";" })
    IN  SubSeq(content, i + 1, j - 1)

\* the dict returned: a key is present iff its pattern matched
ParseContent(content) ==
    [ key \in { k \in PatternKeys : MatchStarts(content, k) # {} } |->
        Strip(SearchGroup(content, key)) ]

NoFields == [ key \in {} |-> << >> ]

\* readable = FALSE: open()/read() raised, the except branch leaves tags = {}
parse_metadata_file(readable, content) ==
    IF readable THEN ParseContent(content) ELSE NoFields

\* dict.get(key, '')
Get(fields, key) == IF key \in DOMAIN fields THEN fields[key] ELSE << >>

\* the join done whether or not there is a subtitle, and never trimmed
FinalTitleAlwaysJoined(fields) ==
    Get(fields, "title") \o <<Blank>> \o Get(fields, "subtitle")

\* apply_tags, the title/subtitle join
FinalTitle(fields) ==
    LET title    == Get(fields, "title")
        subtitle == Get(fields, "subtitle")
    IN  IF subtitle # << >> THEN Strip(title \o <<Blank>> \o subtitle) ELSE title

(***************************************************************************)
(* Names and paths (os.path)                                               *)
(***************************************************************************)
NoName == <<"", "">>

\* str.lower() / str.upper() on the suffixes that occur
Lower(s) ==
    CASE s \in {".ogg", ".OGG"}        -> ".ogg"
      [] s \in {".mp3", ".MP3"}        -> ".mp3"
      [] s \in {".ssc", ".SSC"}        -> ".ssc"
      [] s \in {".sm", ".Sm", ".SM"}   -> ".sm"
      [] OTHER                         -> s

\* os.path.normcase: the identity on POSIX, lower case on Windows
normcase(fold, s) == IF fold THEN Lower(s) ELSE s

\* os.path.splitext(name)[1]: a leading dot does not start an extension
splitext(name) == IF name[1] = "" THEN "" ELSE name[2]

\* os.path.dirname / os.path.basename on absolute normalised paths
dirname(path) == IF path = << >> THEN << >> ELSE SubSeq(path, 1, Len(path) - 1)

basename(path) == IF path = << >> THEN NoName ELSE path[Len(path)]

\* a name as text: the empty name is the empty string
NameText(name) ==
    (IF name[1] = "" THEN << >> ELSE <<name[1]>>) \o
    (IF name[2] = "" THEN << >> ELSE <<name[2]>>)

get_album_name(file_path) == NameText(basename(dirname(dirname(file_path))))

(***************************************************************************)
(* The descriptor resolver: main(), the two globs and the priority rule    *)
(***************************************************************************)
\* fnmatch of the pattern '*<suffix>': pattern and name are normcase()d
fnmatch(fold, name, suffix) == normcase(fold, name[2]) = normcase(fold, suffix)

\* glob.glob(join(escaped_root, '*<suffix>'), include_hidden=True): every
\* entry of the directory that matches, dot-prefixed or not, in listing order
glob(fold, entries, suffix) ==
    SelectSeq(entries, LAMBDA name : fnmatch(fold, name, suffix))

\* ssc_list if ssc_list else (sm_list if sm_list else None); None is << >>
SourceMeta(ssc_list, sm_list) ==
    IF ssc_list # << >> THEN ssc_list
    ELSE IF sm_list # << >> THEN sm_list ELSE << >>

Resolve(fold, entries) ==
    SourceMeta(glob(fold, entries, ".ssc"), glob(fold, entries, ".sm"))

(***************************************************************************)
(* Tag blocks (the mutagen objects) and apply_tags                         *)
(***************************************************************************)
NoDict == [ key \in {} |-> << >> ]

\* an audio file without a tag block (MP3: audio.tags is None)
NoTags == [present |-> FALSE, fields |-> NoDict]

\* audio[key] = value
SetField(fields, key, value) ==
    [ k \in DOMAIN fields \cup {key} |-> IF k = key THEN <<value>> ELSE fields[k] ]

\* the three assignments of either branch
WriteFields(fields, final_title, new_tags, album_name) ==
    LET f1 == IF final_title # << >>
              THEN SetField(fields, "title", final_title) ELSE fields
        f2 == IF "artist" \in DOMAIN new_tags
              THEN SetField(f1, "artist", new_tags["artist"]) ELSE f1
    IN  SetField(f2, "album", album_name)

\* a tag library that adds each value to what the file holds already
MergeFields(old, final_title, new_tags, album_name) ==
    LET new == WriteFields(NoDict, final_title, new_tags, album_name)
    IN  [ k \in DOMAIN old \cup DOMAIN new |->
            (IF k \in DOMAIN old THEN old[k] ELSE << >>) \o
            (IF k \in DOMAIN new THEN new[k] ELSE << >>) ]

\* the fields kept when nothing is deleted
FieldsKept(old) == old

\* the fields after audio.delete() (and, for MP3, add_tags()): none
FreshFields(old) == NoDict

\* the fields saved by a successful apply_tags on a file holding `old`
RewriteFields(old, final_title, new_tags, album_name) ==
    WriteFields(FreshFields(old), final_title, new_tags, album_name)

Stages == {"open", "delete", "set", "save"}

\* the stages of apply_tags at which the tag library can raise: the MP3
\* branch calls delete() only when the file has a tag block
RaisableAt(ext, disk) ==
    IF ext = ".mp3" /\ ~disk.present THEN Stages \ {"delete"} ELSE Stages

\* what the file holds after apply_tags' try block, given where it raised
TagsOnDisk(ext, disk, fault, final_title, new_tags, album_name) ==
    CASE fault \in {"open", "delete"} -> disk
      [] fault \in {"set", "save"} ->
            \* delete() has already rewritten the file without its tags
            IF ext = ".ogg" THEN [present |-> TRUE, fields |-> NoDict] ELSE NoTags
      [] OTHER ->
            [present |-> TRUE,
             fields  |-> RewriteFields(disk.fields, final_title, new_tags, album_name)]

\* an exception raised in the try block and not caught
PropagatesAll(fault) == fault # "none"

\* apply_tags: 'except Exception' catches every error of the try block
Propagates(fault) == FALSE

\* an open()/read() error leaving parse_metadata_file
ReadPropagatesAll(readable) == ~readable

\* parse_metadata_file: 'except Exception' catches the open()/read() error
ReadPropagates(readable) == FALSE

Line(kind, d, file, title) == [kind |-> kind, dir |-> d, file |-> file, title |-> title]

\* what apply_tags prints
ApplyLog(d, file, dsc, fault) ==
    LET new_tags == parse_metadata_file(dsc.readable, dsc.content)
    IN  (IF dsc.readable THEN << >> ELSE <<Line("readerr", d, file, << >>)>>) \o
        (IF fault = "none"
         THEN <<Line("tagged", d, file, FinalTitle(new_tags))>>
         ELSE <<Line("failed", d, file, << >>)>>)

(***************************************************************************)
(* The tree walked: a root directory with one subdirectory                 *)
(***************************************************************************)
ChildName == <<"Song", "">>

\* os.walk is top-down: the root, then its subdirectory
WalkOrder == <<1, 2>>

DirPathIn(root, d) == IF d = 1 THEN root ELSE Append(root, ChildName)

\* the entries glob sees in directory d: its files and, in the root, the subdirectory
EntriesIn(fs, d) == IF d = 1 THEN fs[d] \o <<ChildName>> ELSE fs[d]

IsAudio(name) == Lower(splitext(name)) \in {".ogg", ".mp3"}

AudioPathsIn(root, fs) ==
    UNION { { Append(DirPathIn(root, d), fs[d][i]) :
                i \in { j \in 1..Len(fs[d]) : IsAudio(fs[d][j]) } } : d \in DOMAIN fs }

DirPath(d) == DirPathIn(rootDir, d)

Entries(d) == EntriesIn(files, d)

(***************************************************************************)
(* main()                                                                  *)
(***************************************************************************)
WalkerFrame == UNCHANGED <<caseFold, rootIsDir, rootDir, files, desc>>

OthersIdle == UNCHANGED <<rvars, pvars, evars>>

\* the root is not a directory: an error line, and main returns
InvalidRoot ==
    /\ pc = "start"
    /\ ~rootIsDir
    /\ log' = Append(log, Line("invalid", 0, NoName, << >>))
    /\ pc' = "done"
    /\ UNCHANGED <<tags, queue, cur, idx, found_ogg, found_mp3, source_meta_list,
                   run, before, faults>>
    /\ WalkerFrame /\ OthersIdle

StartWalk ==
    /\ pc = "start"
    /\ rootIsDir
    /\ queue' = WalkOrder
    /\ pc' = "walk"
    /\ UNCHANGED <<tags, cur, idx, found_ogg, found_mp3, source_meta_list, log,
                   run, before, faults>>
    /\ WalkerFrame /\ OthersIdle

\* a flag that keeps the value the previous directory left
FlagCarried(previous) == previous

\* found_ogg = found_mp3 = False at the top of the os.walk loop body
FlagAtDirStart(previous) == FALSE

\* os.walk yields the next directory; the flags are reset, the descriptor resolved
VisitDir ==
    /\ pc = "walk"
    /\ queue # << >>
    /\ cur' = Head(queue)
    /\ queue' = Tail(queue)
    /\ found_ogg' = FlagAtDirStart(found_ogg)
    /\ found_mp3' = FlagAtDirStart(found_mp3)
    /\ source_meta_list' = Resolve(caseFold, Entries(Head(queue)))
    /\ idx' = 1
    /\ pc' = "files"
    /\ UNCHANGED <<tags, log, run, before, faults>>
    /\ WalkerFrame /\ OthersIdle

\* the tagger is called for every audio file, descriptor or not
DispatchAlways(meta_list) == TRUE

\* 'if source_meta_list:'
Dispatch(meta_list) == meta_list # << >>

\* one iteration of 'for file in files', apply_tags included
ProcessFile ==
    /\ pc = "files"
    /\ idx <= Len(files[cur])
    /\ LET file       == files[cur][idx]
           ext_check  == Lower(splitext(file))
           audio_path == Append(DirPath(cur), file)
           dsc        == desc[cur]
           new_tags   == parse_metadata_file(dsc.readable, dsc.content)
       IN  /\ found_ogg' = (found_ogg \/ ext_check = ".ogg")
           /\ found_mp3' = (found_mp3 \/ ext_check = ".mp3")
           /\ IF ext_check \in {".ogg", ".mp3"}
              THEN IF Dispatch(source_meta_list)
                   THEN \E fault \in {"none"} \cup
                               (IF faults < MaxFaults
                                THEN RaisableAt(ext_check, tags[audio_path]) ELSE {}) :
                          /\ faults' = IF fault = "none" THEN faults ELSE faults + 1
                          /\ IF ReadPropagates(dsc.readable)
                             THEN /\ pc' = "crashed"
                                  /\ UNCHANGED <<tags, log>>
                             ELSE /\ tags' = [tags EXCEPT ![audio_path] =
                                        TagsOnDisk(ext_check, @, fault, FinalTitle(new_tags),
                                                   new_tags, get_album_name(audio_path))]
                                  /\ IF Propagates(fault)
                                     THEN pc' = "crashed" /\ UNCHANGED log
                                     ELSE /\ pc' = pc
                                          /\ log' = log \o ApplyLog(cur, file, dsc, fault)
                   ELSE /\ log' = Append(log, Line("nodesc", cur, file, << >>))
                        /\ UNCHANGED <<tags, faults, pc>>
              ELSE UNCHANGED <<tags, log, faults, pc>>
    /\ idx' = idx + 1
    /\ UNCHANGED <<queue, cur, source_meta_list, run, before>>
    /\ WalkerFrame /\ OthersIdle

\* after the file loop: the mixed-format warning
EndDir ==
    /\ pc = "files"
    /\ idx > Len(files[cur])
    /\ log' = IF found_ogg /\ found_mp3
              THEN Append(log, Line("mixed", cur, NoName, << >>)) ELSE log
    /\ pc' = "walk"
    /\ UNCHANGED <<tags, queue, cur, idx, found_ogg, found_mp3, source_meta_list,
                   run, before, faults>>
    /\ WalkerFrame /\ OthersIdle

\* os.walk is exhausted: main returns
Finish ==
    /\ pc = "walk"
    /\ queue = << >>
    /\ pc' = "done"
    /\ UNCHANGED <<tags, queue, cur, idx, found_ogg, found_mp3, source_meta_list,
                   log, run, before, faults>>
    /\ WalkerFrame /\ OthersIdle

\* the script is started a second time on the tree the first run left
Rerun ==
    /\ pc = "done"
    /\ run = 1
    /\ run' = 2
    /\ before' = tags
    /\ log' = << >>
    /\ pc' = "start"
    /\ cur' = 0
    /\ idx' = 1
    /\ found_ogg' = FALSE
    /\ found_mp3' = FALSE
    /\ source_meta_list' = << >>
    /\ UNCHANGED <<tags, queue, faults>>
    /\ WalkerFrame /\ OthersIdle

Next == InvalidRoot \/ StartWalk \/ VisitDir \/ ProcessFile \/ EndDir \/ Finish \/ Rerun

(***************************************************************************)
(* The trees and files the walk is checked on                              *)
(***************************************************************************)
Text(word) == <<word>>

Unreadable == [readable |-> FALSE, content |-> << >>]

DescFull ==
    [readable |-> TRUE,
     content  |-> <<"#TITLE:", "Foo", ";", "#SUBTITLE:", "Bar", ";", "#ARTIST:", "Art", ";">>]

DescTitleOnly == [readable |-> TRUE, content |-> <<"#TITLE:", "Foo", ";">>]

DescSubtitleOnly == [readable |-> TRUE, content |-> <<"#subtitle:", Blank, "Bar", ";">>]

DescEmptyArtist ==
    [readable |-> TRUE, content |-> <<"#ARTIST:", ";", "#TITLE:", Blank, ";">>]

DescNoKeys == [readable |-> TRUE, content |-> <<"Foo", ";">>]

Stale ==
    [present |-> TRUE,
     fields  |-> [title |-> <<Text("Old")>>, genre |-> <<Text("Pop")>>]]

StaleMany ==
    [present |-> TRUE,
     fields  |-> [title |-> <<Text("Old"), Text("Older")>>,
                  artist |-> <<Text("Who")>>, album |-> <<Text("Was")>>]]

Untagged(ext) == IF ext = ".ogg" THEN [present |-> TRUE, fields |-> NoDict] ELSE NoTags

Injective(seq) == \A i, j \in 1..Len(seq) : seq[i] = seq[j] => i = j

Listings(names, n) ==
    { seq \in UNION { [1..k -> names] : k \in 0..n } : Injective(seq) }

WalkNames ==
    { <<"a", ".ogg">>, <<"b", ".MP3">>, <<"s", ".ssc">>, <<"t", ".sm">>, <<"U", ".SSC">> }

IdleWalk ==
    /\ queue = << >>
    /\ cur = 0
    /\ idx = 1
    /\ found_ogg = FALSE
    /\ found_mp3 = FALSE
    /\ source_meta_list = << >>
    /\ log = << >>
    /\ run = 1
    /\ faults = 0

\* every small tree: stale tags on the .ogg files, none on the .mp3 files
InitTrees ==
    /\ caseFold \in BOOLEAN
    /\ rootIsDir = TRUE
    /\ rootDir = << <<"Songs", "">>, <<"Pack", "">> >>
    /\ files \in { fs \in [1..2 -> Listings(WalkNames, MaxFiles)] :
                     Len(fs[1]) + Len(fs[2]) <= MaxFiles }
    /\ desc \in { ds \in [1..2 -> {Unreadable, DescFull}] :
                     \A d \in 1..2 :
                        Resolve(caseFold, EntriesIn(files, d)) = << >> => ds[d] = Unreadable }
    /\ tags = [ path \in AudioPathsIn(rootDir, files) |->
                  IF Lower(splitext(basename(path))) = ".ogg"
                  THEN Stale ELSE NoTags ]
    /\ before = tags

\* one audio file beside one descriptor: every root, descriptor text and old tag block
InitTagging ==
    /\ caseFold = FALSE
    /\ rootIsDir \in BOOLEAN
    /\ rootDir \in { << >>, << <<"Songs", "">> >>, << <<"Songs", "">>, <<"Pack", "">> >> }
    /\ \E audio \in { <<"a", ".ogg">>, <<"b", ".MP3">> } :
         files \in { <<<< <<"s", ".ssc">>, audio >>, << >>>>,
                     <<<< >>, << audio, <<"t", ".sm">> >>>> }
    /\ \E dsc \in { Unreadable, DescFull, DescTitleOnly, DescSubtitleOnly,
                    DescEmptyArtist, DescNoKeys } :
         desc = [ d \in 1..2 |-> IF files[d] = << >> THEN Unreadable ELSE dsc ]
    /\ tags \in [ AudioPathsIn(rootDir, files) ->
                    { Stale, StaleMany, Untagged(".ogg"), Untagged(".mp3") } ]
    /\ \A path \in DOMAIN tags :
         ~tags[path].present => Lower(splitext(basename(path))) = ".mp3"
    /\ before = tags

IdleResolve ==
    /\ rEntries = << >>
    /\ rFold = FALSE
    /\ rSelected = << >>
    /\ rPc = "idle"

IdleParse ==
    /\ pContent = << >>
    /\ pFields = NoFields
    /\ pTitle = << >>
    /\ pPc = "idle"

IdleExport ==
    /\ manifest = << >>
    /\ ePc = "idle"
    /\ eRow = 0
    /\ api_results = << >>
    /\ max_data = [farthest_item_id |-> 0, max_distance |-> 0]
    /\ farthest_meta = [title |-> "", author |-> "", album |-> ""]
    /\ rank_value = 1
    /\ out = << >>
    /\ answers = << >>

IdleTree ==
    /\ caseFold = FALSE
    /\ rootIsDir = FALSE
    /\ rootDir = << >>
    /\ files = << << >>, << >> >>
    /\ desc = << Unreadable, Unreadable >>
    /\ tags = NoDict
    /\ before = NoDict
    /\ pc = "idle"
    /\ IdleWalk

\* one full tree: a descriptor, an .ogg and an .mp3 in the root, a descriptor and
\* an .ogg in the subdirectory
InitFull ==
    /\ caseFold \in BOOLEAN
    /\ rootIsDir = TRUE
    /\ rootDir = << <<"Songs", "">>, <<"Pack", "">> >>
    /\ files = << << <<"s", ".ssc">>, <<"a", ".ogg">>, <<"b", ".MP3">> >>,
                  << <<"t", ".sm">>, <<"a", ".ogg">> >> >>
    /\ desc \in [1..2 -> {Unreadable, DescFull, DescTitleOnly}]
    /\ tags \in [ AudioPathsIn(rootDir, files) -> { Stale, Untagged(".ogg") } ]
    /\ before = tags

Init ==
    /\ InitTrees \/ InitTagging \/ InitFull
    /\ pc = "start"
    /\ IdleWalk
    /\ IdleResolve /\ IdleParse /\ IdleExport

Spec == Init /\ [][Next]_vars

(***************************************************************************)
(* Specification SpecResolve: the resolver applied to every short listing  *)
(***************************************************************************)
ResolveNames ==
    { <<"s", ".ssc">>, <<"z", ".ssc">>, <<"U", ".SSC">>, <<"", ".ssc">>,
      <<"t", ".sm">>, <<"v", ".Sm">>, <<".h", ".sm">>, <<"a", ".ogg">> }

InitResolve ==
    /\ IdleTree /\ IdleParse /\ IdleExport
    /\ rEntries \in Listings(ResolveNames, MaxEntries)
    /\ rFold \in BOOLEAN
    /\ rSelected = << >>
    /\ rPc = "ready"

ResolveStep ==
    /\ rPc = "ready"
    /\ rSelected' = Resolve(rFold, rEntries)
    /\ rPc' = "done"
    /\ UNCHANGED <<rEntries, rFold, wvars, pvars, evars>>

NextResolve == ResolveStep

SpecResolve == InitResolve /\ [][NextResolve]_vars

(***************************************************************************)
(* Specification SpecParse: the parser applied to every short text         *)
(***************************************************************************)
ParseTokens == {"#TITLE:", "#title:", "#SUBTITLE:", ";", Blank, "Foo", "Bar"}

ParseInputs == UNION { [1..n -> ParseTokens] : n \in 0..MaxContentLen }

InitParse ==
    /\ IdleTree /\ IdleResolve /\ IdleExport
    /\ pContent \in ParseInputs
    /\ pFields = NoFields
    /\ pTitle = << >>
    /\ pPc = "ready"

ParseStep ==
    /\ pPc = "ready"
    /\ pFields' = parse_metadata_file(TRUE, pContent)
    /\ pTitle' = FinalTitle(parse_metadata_file(TRUE, pContent))
    /\ pPc' = "done"
    /\ UNCHANGED <<pContent, wvars, rvars, evars>>

NextParse == ParseStep

SpecParse == InitParse /\ [][NextParse]_vars

(***************************************************************************)
(* similar_csv.py: retrieve_similarity                                     *)
(***************************************************************************)
\* the i-th row of the master CSV
ManifestRow(i) ==
    [id |-> i, title |-> <<"title", i>>, artist |-> <<"artist", i>>,
     album |-> <<"album", i>>]

\* what the AudioMuse-AI API can answer
Items ==
    { [title |-> "x", author |-> "ax", album |-> "bx", distance |-> 1],
      [title |-> "y", author |-> "ay", album |-> "by", distance |-> 2] }

SimilarAnswers == UNION { [1..n -> Items] : n \in 0..MaxSimilar }

MaxDistAnswer == [farthest_item_id |-> 0, max_distance |-> 9]

TrackAnswer == [title |-> "f", author |-> "af", album |-> "bf"]

NoAnswer == [title |-> "", author |-> "", album |-> ""]

Failed == [ok |-> FALSE, similar |-> << >>, far |-> NoAnswer, data |-> MaxDistAnswer]

\* a row written for one similar track: the API's 'author' fills column 'artist'
SimilarRow(row, rank, item) ==
    [source_title |-> row.title, source_artist |-> row.artist,
     source_album |-> row.album, rank |-> rank, title |-> item.title,
     artist |-> item.author, album |-> item.album, distance |-> item.distance]

\* the row written for the farthest song
FarthestRow(row, meta, data) ==
    [source_title |-> row.title, source_artist |-> row.artist,
     source_album |-> row.album, rank |-> -1, title |-> meta.title,
     artist |-> meta.author, album |-> meta.album, distance |-> data.max_distance]

ExportFrame == UNCHANGED <<manifest, wvars, rvars, pvars>>

\* the output file is opened and its header written
OpenOutput ==
    /\ ePc = "start"
    /\ out' = << >>
    /\ ePc' = "next"
    /\ UNCHANGED <<eRow, api_results, max_data, farthest_meta, rank_value, answers>>
    /\ ExportFrame

\* 'for row in reader': the next row of the manifest
ReadRow ==
    /\ ePc = "next"
    /\ eRow < Len(manifest)
    /\ eRow' = eRow + 1
    /\ ePc' = "similar"
    /\ UNCHANGED <<api_results, max_data, farthest_meta, rank_value, out, answers>>
    /\ ExportFrame

\* the API error is printed and the rows are written all the same
WhereAfterErrorWrites == "write"

\* 'continue': the API error is printed and the loop goes on with the next row
WhereAfterError == "next"

\* A. /similar_tracks, one attempt
RequestSimilar ==
    /\ ePc = "similar"
    /\ \/ \E answer \in SimilarAnswers :
            /\ api_results' = answer
            /\ ePc' = "maxdist"
            /\ UNCHANGED answers
       \/ /\ answers' = Append(answers, Failed)
          /\ ePc' = WhereAfterError
          /\ UNCHANGED api_results
    /\ rank_value' = 1
    /\ UNCHANGED <<eRow, max_data, farthest_meta, out>>
    /\ ExportFrame

\* B. /max_distance, one attempt
RequestMaxDistance ==
    /\ ePc = "maxdist"
    /\ \/ /\ max_data' = MaxDistAnswer
          /\ ePc' = "track"
          /\ UNCHANGED answers
       \/ /\ answers' = Append(answers, Failed)
          /\ ePc' = WhereAfterError
          /\ UNCHANGED max_data
    /\ UNCHANGED <<eRow, api_results, farthest_meta, rank_value, out>>
    /\ ExportFrame

\* C. /track for the farthest song, one attempt
RequestTrack ==
    /\ ePc = "track"
    /\ \/ /\ farthest_meta' = TrackAnswer
          /\ answers' = Append(answers,
                [ok |-> TRUE, similar |-> api_results, far |-> TrackAnswer,
                 data |-> max_data])
          /\ ePc' = "write"
       \/ /\ answers' = Append(answers, Failed)
          /\ ePc' = WhereAfterError
          /\ UNCHANGED farthest_meta
    /\ UNCHANGED <<eRow, api_results, max_data, rank_value, out>>
    /\ ExportFrame

\* rank_value = 1
FirstRank == 1

\* one iteration of 'for item in api_results'
WriteSimilar ==
    /\ ePc = "write"
    /\ rank_value <= Len(api_results)
    /\ out' = Append(out, SimilarRow(manifest[eRow], rank_value - 1 + FirstRank,
                                     api_results[rank_value]))
    /\ rank_value' = rank_value + 1
    /\ UNCHANGED <<ePc, eRow, api_results, max_data, farthest_meta, answers>>
    /\ ExportFrame

\* the rank -1 row, after the similar tracks
WriteFarthest ==
    /\ ePc = "write"
    /\ rank_value > Len(api_results)
    /\ out' = Append(out, FarthestRow(manifest[eRow], farthest_meta, max_data))
    /\ ePc' = "next"
    /\ UNCHANGED <<eRow, api_results, max_data, farthest_meta, rank_value, answers>>
    /\ ExportFrame

\* the manifest is exhausted: the files are closed, the success line printed
CloseOutput ==
    /\ ePc = "next"
    /\ eRow = Len(manifest)
    /\ ePc' = "done"
    /\ UNCHANGED <<eRow, api_results, max_data, farthest_meta, rank_value, out, answers>>
    /\ ExportFrame

NextExport ==
    \/ OpenOutput \/ ReadRow \/ RequestSimilar \/ RequestMaxDistance \/ RequestTrack
    \/ WriteSimilar \/ WriteFarthest \/ CloseOutput

InitExport ==
    /\ IdleTree /\ IdleResolve /\ IdleParse
    /\ manifest \in UNION { [1..n -> {ManifestRow(1), ManifestRow(2)}] : n \in 0..MaxRows }
    /\ ePc = "start"
    /\ eRow = 0
    /\ api_results = << >>
    /\ max_data = [farthest_item_id |-> 0, max_distance |-> 0]
    /\ farthest_meta = NoAnswer
    /\ rank_value = 1
    /\ out = << >>
    /\ answers = << >>

SpecExport == InitExport /\ [][NextExport]_vars

(***************************************************************************)
(* Properties of the retagger (specification Spec)                         *)
(***************************************************************************)
\* the descriptor list main() selects in directory d
Selected(d) == Resolve(caseFold, Entries(d))

\* the audio files of directory d: extension .ogg or .mp3 in any case
AudioIdx(d) == { i \in 1..Len(files[d]) : Lower(files[d][i][2]) \in {".ogg", ".mp3"} }

HasExt(d, ext) == \E i \in 1..Len(files[d]) : Lower(files[d][i][2]) = ext

PathOf(d, i) == Append(DirPath(d), files[d][i])

\* the positions of the lines of the given kinds printed for a file of directory d
Lines(kinds, d, file) ==
    { n \in 1..Len(log) : log[n].kind \in kinds /\ log[n].dir = d /\ log[n].file = file }

Outcomes == {"tagged", "failed", "nodesc"}

\* the name of the directory two levels above the file; none above the root
GrandparentName(path) ==
    IF Len(path) >= 3 THEN NameText(path[Len(path) - 2]) ELSE << >>

\* the TagSet of section 3: album always, title iff non-empty, artist iff matched
ExpectedTagSet(path, dsc) ==
    LET fields == parse_metadata_file(dsc.readable, dsc.content)
        title  == FinalTitle(fields)
        keys   == {"album"} \cup (IF title # << >> THEN {"title"} ELSE {})
                            \cup (IF "artist" \in DOMAIN fields THEN {"artist"} ELSE {})
    IN  [present |-> TRUE,
         fields  |-> [ k \in keys |->
                        CASE k = "album"  -> <<GrandparentName(path)>>
                          [] k = "title"  -> <<title>>
                          [] k = "artist" -> <<fields["artist"]>> ]]

\* C1: in a visited directory where no descriptor is selected, every audio file
\* gets exactly one 'no descriptor' warning, the tag writer is never called on it
\* and its tags stay what they were before the run.
C1_NoDescriptorUntouched ==
    \A d \in 1..2 : Selected(d) = << >> =>
        \A i \in AudioIdx(d) :
            /\ tags[PathOf(d, i)] = before[PathOf(d, i)]
            /\ Lines({"tagged", "failed", "readerr"}, d, files[d][i]) = {}
            /\ Cardinality(Lines({"nodesc"}, d, files[d][i])) <= 1
            /\ (pc = "done" /\ rootIsDir) =>
                    Cardinality(Lines({"nodesc"}, d, files[d][i])) = 1

C1_Witness ==
    /\ pc = "done" /\ rootIsDir
    /\ \E d \in 1..2 : \E i \in AudioIdx(d) :
         /\ Selected(d) = << >>
         /\ tags[PathOf(d, i)] = Stale
         /\ Lines({"nodesc"}, d, files[d][i]) # {}

\* C3: once apply_tags has succeeded on a file, whatever it held before, the
\* file holds exactly the derived TagSet: album (the grandparent directory's
\* name) always, title iff non-empty, artist iff #ARTIST matched, nothing else.
C3_ExactTagSet ==
    \A d \in 1..2 : \A i \in AudioIdx(d) :
        Lines({"tagged"}, d, files[d][i]) # {} =>
            /\ tags[PathOf(d, i)] = ExpectedTagSet(PathOf(d, i), desc[d])
            /\ tags[PathOf(d, i)].fields["album"] = <<GrandparentName(PathOf(d, i))>>

C3_Witness ==
    \E d \in 1..2 : \E i \in AudioIdx(d) :
        /\ Lines({"tagged"}, d, files[d][i]) # {}
        /\ run = 1
        /\ before[PathOf(d, i)] = StaleMany
        /\ desc[d] = DescTitleOnly
        /\ Lower(files[d][i][2]) = ".mp3"
        /\ DOMAIN tags[PathOf(d, i)].fields = {"title", "album"}

\* C4: when the script is run twice on the same tree and the tag library raises
\* no error, every audio file holds after the second run what it held after
\* the first: nothing is duplicated or accumulated.
C4_SecondRunSame ==
    (pc = "done" /\ run = 2 /\ faults = 0) =>
        \A path \in DOMAIN tags : tags[path] = before[path]

C4_Witness ==
    /\ pc = "done" /\ run = 2 /\ faults = 0
    /\ \E path \in DOMAIN tags :
         /\ Lower(basename(path)[2]) = ".ogg"
         /\ DOMAIN tags[path].fields = {"title", "artist", "album"}
    /\ \E path \in DOMAIN tags :
         /\ Lower(basename(path)[2]) = ".mp3"
         /\ DOMAIN tags[path].fields = {"title", "artist", "album"}

\* C6: an error of the tag library on one audio file is caught: the walk never
\* stops, and at its end every audio file has been handled exactly once, warned
\* iff its directory has no descriptor, and every file on which no error was
\* raised holds the TagSet it would hold in a run without errors.
C6_ErrorsAreLocal ==
    /\ pc # "crashed"
    /\ (pc = "done" /\ rootIsDir) =>
        \A d \in 1..2 : \A i \in AudioIdx(d) :
            /\ Cardinality(Lines(Outcomes, d, files[d][i])) = 1
            /\ Lines({"nodesc"}, d, files[d][i]) # {} <=> Selected(d) = << >>
            /\ Lines({"tagged"}, d, files[d][i]) # {} =>
                    tags[PathOf(d, i)] = ExpectedTagSet(PathOf(d, i), desc[d])

C6_Witness ==
    /\ pc = "done"
    /\ \E n \in 1..Len(log) :
         /\ log[n].kind = "failed" /\ log[n].dir = 1
         /\ \E m \in (n + 1)..Len(log) : log[m].kind = "tagged" /\ log[m].dir = 1
         /\ \E m \in (n + 1)..Len(log) : log[m].kind = "tagged" /\ log[m].dir = 2

\* C7: when the selected descriptor cannot be read, the walk goes on, every audio
\* file of the directory is still handed to the tag writer, and each one written
\* without a tag-library error holds the album field and nothing else.
C7_UnreadableDescriptor ==
    /\ pc # "crashed"
    /\ (pc = "done" /\ rootIsDir) =>
        \A d \in 1..2 : (Selected(d) # << >> /\ ~desc[d].readable) =>
            \A i \in AudioIdx(d) :
                /\ Cardinality(Lines({"tagged", "failed"}, d, files[d][i])) = 1
                /\ Lines({"nodesc"}, d, files[d][i]) = {}
                /\ Lines({"tagged"}, d, files[d][i]) # {} =>
                     tags[PathOf(d, i)] =
                        [present |-> TRUE,
                         fields  |-> [album |-> <<GrandparentName(PathOf(d, i))>>]]

C7_Witness ==
    /\ pc = "done"
    /\ Selected(1) # << >> /\ ~desc[1].readable /\ desc[2].readable
    /\ \E i \in AudioIdx(1) :
         /\ Lines({"tagged"}, 1, files[1][i]) # {}
         /\ before[PathOf(1, i)] = Stale
         /\ DOMAIN tags[PathOf(1, i)].fields = {"album"}
    /\ \E i \in AudioIdx(2) :
         /\ Lines({"tagged"}, 2, files[2][i]) # {}
         /\ "title" \in DOMAIN tags[PathOf(2, i)].fields

\* C8: at the end of the walk every directory has exactly one mixed-format
\* warning if it holds both an .ogg and an .mp3 file and none otherwise, the
\* warning follows every other line of its directory, and each audio file of
\* the directory has been tagged, or warned about, exactly once all the same.
C8_MixedWarning ==
    (pc = "done" /\ rootIsDir) =>
        \A d \in 1..2 :
            /\ Cardinality(Lines({"mixed"}, d, NoName)) =
                  (IF HasExt(d, ".ogg") /\ HasExt(d, ".mp3") THEN 1 ELSE 0)
            /\ \A m \in Lines({"mixed"}, d, NoName) :
                  \A n \in 1..Len(log) : log[n].dir = d => n <= m
            /\ \A i \in AudioIdx(d) :
                  /\ Cardinality(Lines(Outcomes, d, files[d][i])) = 1
                  /\ Lines({"nodesc"}, d, files[d][i]) # {} <=> Selected(d) = << >>

C8_Witness ==
    /\ pc = "done"
    /\ Lines({"mixed"}, 2, NoName) = {}
    /\ HasExt(2, ".ogg")
    /\ \E m \in Lines({"mixed"}, 1, NoName) :
         /\ \E n \in 1..(m - 1) : log[n].kind = "tagged" /\ Lower(log[n].file[2]) = ".ogg"
         /\ \E n \in 1..(m - 1) : log[n].kind = "tagged" /\ Lower(log[n].file[2]) = ".mp3"

(***************************************************************************)
(* Properties of the descriptor resolver (specification SpecResolve)       *)
(***************************************************************************)
\* the descriptor files of a listing, by the extension classes of section 4.2:
\* the files whose extension is .ssc, or .sm, in any case
PrimaryFiles(entries) == SelectSeq(entries, LAMBDA name : Lower(name[2]) = ".ssc")

FallbackFiles(entries) == SelectSeq(entries, LAMBDA name : Lower(name[2]) = ".sm")

\* C2: the resolver selects the first .ssc file if the directory has one, else
\* the first .sm file if it has one, else nothing.
C2_PriorityRule ==
    rPc = "done" =>
        IF PrimaryFiles(rEntries) # << >>
        THEN rSelected # << >> /\ rSelected[1] = PrimaryFiles(rEntries)[1]
        ELSE IF FallbackFiles(rEntries) # << >>
             THEN rSelected # << >> /\ rSelected[1] = FallbackFiles(rEntries)[1]
             ELSE rSelected = << >>

\* C9: a directory whose only descriptor file has an upper- or mixed-case
\* extension, or a dot-prefixed name, has that file selected.
C9_AnyCaseSelected ==
    rPc = "done" =>
        \A name \in ResolveNames :
            (PrimaryFiles(rEntries) \o FallbackFiles(rEntries) = <<name>>) =>
                (rSelected # << >> /\ rSelected[1] = name)

(***************************************************************************)
(* Properties of the parser (specification SpecParse)                      *)
(***************************************************************************)
RECURSIVE UpToSemicolon(_)
UpToSemicolon(text) ==
    IF text = << >> \/ Head(text) = ";" THEN << >>
    ELSE <<Head(text)>> \o UpToSemicolon(Tail(text))

\* the first '#KEY:...;' entry of a text: whether there is one, and its trimmed value
RECURSIVE FirstEntry(_, _)
FirstEntry(text, keys) ==
    IF text = << >> THEN [found |-> FALSE, value |-> << >>]
    ELSE IF Head(text) \in keys /\ \E j \in 2..Len(text) : text[j] = ";"
         THEN [found |-> TRUE, value |-> Strip(UpToSemicolon(Tail(text)))]
         ELSE FirstEntry(Tail(text), keys)

\* C5: the final title is made of the first #TITLE and the first #SUBTITLE entry,
\* each trimmed: 'title subtitle' when both are non-empty, the title alone when
\* the subtitle is absent or empty, the subtitle alone when the title is absent
\* or empty; it never starts or ends with whitespace.
C5_FinalTitle ==
    pPc = "done" =>
        LET t == FirstEntry(pContent, {"#TITLE:", "#title:"})
            s == FirstEntry(pContent, {"#SUBTITLE:", "#subtitle:"})
        IN  /\ ("title" \in DOMAIN pFields) <=> t.found
            /\ ("subtitle" \in DOMAIN pFields) <=> s.found
            /\ (t.value # << >> /\ s.value # << >>) =>
                    pTitle = t.value \o <<Blank>> \o s.value
            /\ s.value = << >> => pTitle = t.value
            /\ (t.value = << >> /\ s.value # << >>) => pTitle = s.value
            /\ pTitle # << >> => (Head(pTitle) # Blank /\ pTitle[Len(pTitle)] # Blank)
            /\ pContent = <<"#TITLE:", "Foo", ";">> => pTitle = <<"Foo">>
            /\ pContent = <<"#TITLE:", "Foo", ";", "#TITLE:", "Bar", ";">> =>
                    pTitle = <<"Foo">>

C5_Witness ==
    /\ pPc = "done"
    /\ pContent = <<"#TITLE:", "Foo", ";", "#SUBTITLE:", "Bar", ";">>
    /\ pTitle = <<"Foo", Blank, "Bar">>

(***************************************************************************)
(* Properties of the similarity exporter (specification SpecExport)        *)
(***************************************************************************)
\* the rows one manifest row adds to the output, given what the API answered
Block(row, answer) ==
    IF ~answer.ok THEN << >>
    ELSE [ i \in 1..Len(answer.similar) |->
             [source_title |-> row.title, source_artist |-> row.artist,
              source_album |-> row.album, rank |-> i,
              title |-> answer.similar[i].title, artist |-> answer.similar[i].author,
              album |-> answer.similar[i].album,
              distance |-> answer.similar[i].distance] ] \o
         << [source_title |-> row.title, source_artist |-> row.artist,
             source_album |-> row.album, rank |-> -1,
             title |-> answer.far.title, artist |-> answer.far.author,
             album |-> answer.far.album, distance |-> answer.data.max_distance] >>

RECURSIVE ExpectedOut(_)
ExpectedOut(n) ==
    IF n = 0 THEN << >> ELSE ExpectedOut(n - 1) \o Block(manifest[n], answers[n])

\* the rows written after the last rank -1 row
OpenBlock == { i \in 1..Len(out) : \A j \in i..Len(out) : out[j].rank # -1 }

\* C10: between two manifest rows the output is, in manifest order, one block per
\* row whose three requests succeeded (ranks 1..k in API order, then one rank -1
\* row) and nothing for a row with a failed request; a failure does not stop the
\* loop; rows not yet closed by a rank -1 row exist only while a block is written.
C10_Blocks ==
    /\ ePc \in {"next", "done"} =>
          /\ Len(answers) = eRow
          /\ out = ExpectedOut(eRow)
          /\ Cardinality({ i \in 1..Len(out) : out[i].rank = -1 }) =
                Cardinality({ n \in 1..eRow : answers[n].ok })
    /\ ePc = "done" => eRow = Len(manifest)
    /\ OpenBlock # {} =>
          /\ ePc = "write"
          /\ \A i \in OpenBlock : out[i].source_title = manifest[eRow].title

C10_Witness ==
    /\ ePc = "done"
    /\ Len(manifest) = 2
    /\ ~answers[1].ok
    /\ answers[2].ok
    /\ Len(out) = 3
    /\ out[1].rank = 1 /\ out[2].rank = 2 /\ out[3].rank = -1
    /\ out[1].title # out[2].title
    /\ out[1].source_title = manifest[2].title

====
